---- MODULE Spec2Model ----
(***************************************************************************)
(* Model of the interest accrual engine of the Zinsrechner application     *)
(* (src/src/utils/interestCalculation.ts).                                 *)
(*                                                                         *)
(* Numbers.  The program computes with IEEE doubles.  The model computes   *)
(* the same expressions in exact rational arithmetic: a year basis is a    *)
(* fraction [num, den], the argument of Math.round (interest * 100) is a   *)
(* mixed fraction whole + rem/den with 0 <= rem < den, and a returned      *)
(* amount is an integer number of cents (roundedInterest = cents / 100).   *)
(* The pairs of Amounts are chosen so that the double evaluation and the    *)
(* exact evaluation agree on every period of the model.                    *)
(*                                                                         *)
(* Dates.  A Dayjs value is a calendar date [y, m, d] at local midnight,   *)
(* m in 1..12, or [y, m, d, h] at the full hour h in 1..23 of that date.   *)
(*                                                                         *)
(* AppLayout.  The component is modelled from its two source files,        *)
(* src/unnamed/part_003 and src/src/AppLayout.tsx: its state (data and the *)
(* reporting window), what a render shows, and the report of handlePrint.  *)
(*                                                                         *)
(* Store.  The list of positions is read with load-data and written with   *)
(* save-data by App (src/src/App.tsx, src/unnamed/part_001) and by         *)
(* AppLayout; the model keeps the payload of the most recent save-data     *)
(* message.                                                                *)
(*                                                                         *)
(* Rendering.  A handler of a user event is one step together with the     *)
(* render and the effects that end the event.  The callback of the         *)
(* load-data promise only sets data; the render of that update is a step   *)
(* of its own, and so are the effects of that render, so a handler can run *)
(* before the render on the previous state, or between the render and its  *)
(* effects.                                                                *)
(***************************************************************************)
EXTENDS Integers, Sequences, FiniteSets

VARIABLES
    entry,            \* KontoData: nominal, zinssatz, dayCountConvention
    pStartDatum,      \* argument pStartDatum of calculateInterest
    pEndDatum,        \* argument pEndDatum of calculateInterest
    pc,               \* "called" before the body runs, "returned" after
    days,             \* local days of calculateInterest
    yearBasis,        \* local yearBasis of calculateInterest, [num, den]
    loopTrace,        \* iterations of the while loop of calculateEffectiveYearBasis
    interest,         \* interest * 100 (the argument of Math.round), mixed fraction
    roundedInterest,  \* the returned amount, in cents
    history,          \* the earlier calls of calculateInterest and their results
    layoutFile,       \* the source of the mounted component: "part_003",
                      \* "AppLayout.tsx" or "App.tsx"
    data,             \* AppLayout state data: the list of KontoData
    quartalsBeginn,   \* AppLayout state quartalsBeginn: Null or Some(date)
    quartalsEnde,     \* AppLayout state quartalsEnde: Null or Some(date)
    printed,          \* the create-print-window message the step just taken has
                      \* sent (the report of handlePrint), Null if it sent none
    loadRequest,      \* the load-data request of the mount effect: "pending",
                      \* "resolved", or "none" when no component is mounted
    loaded,           \* the list the load-data callback has handed to setData
                      \* and that is not rendered yet, Null if there is none
    effectPending,    \* the render of the loaded list is committed and its
                      \* effects have not run yet
    saved,            \* payload of the most recent save-data message, Null if none
    submissions       \* number of submissions of the add form so far

calcVars == <<entry, pStartDatum, pEndDatum, pc, days, yearBasis, loopTrace,
              interest, roundedInterest, history>>

layoutVars == <<layoutFile, data, quartalsBeginn, quartalsEnde, printed,
                loadRequest, loaded, effectPending, saved, submissions>>

vars == <<calcVars, layoutVars>>

-----------------------------------------------------------------------------
(* Bounds of the model *)

LastYear == 2025
MaxYearSpan == 2
\* largest factor k by which a second call scales the nominal
MaxScale == 3
\* largest number of KontoData in the stored list
MaxKonten == 2
\* largest number of submissions of the add form
MaxSubmissions == 1

\* calendar years of the model: the two century years of the tests, the
\* year after 1900 (two consecutive years without a leap year) and a
\* run of consecutive years around the leap year 2024
Years == {1900, 1901, 2000} \cup (2023..LastYear)

\* (month, day) pairs of the model: month and year boundaries, the leap day,
\* the 30th/31st that 30/360 caps, the half-year date
MonthDays == {<<1, 1>>, <<1, 2>>, <<1, 30>>, <<1, 31>>, <<2, 1>>, <<2, 28>>,
              <<2, 29>>, <<3, 1>>, <<7, 1>>, <<12, 1>>, <<12, 30>>, <<12, 31>>}

\* (nominal, zinssatz) pairs of the model
Amounts == {<<1000, 5>>, <<1000, 6>>, <<10, 5>>, <<-5, 5>>, <<0, 5>>, <<1000, 0>>}

\* "none" stands for an entry without dayCountConvention (undefined)
Conventions == {"actual", "30/360", "none"}

-----------------------------------------------------------------------------
(* dayjs *)

isLeapYear_div4(y) == y % 4 = 0

\* dayjs plugin isLeapYear
isLeapYear(y) == (y % 4 = 0 /\ y % 100 # 0) \/ y % 400 = 0

daysInMonth(y, m) ==
    IF m = 2 THEN (IF isLeapYear(y) THEN 29 ELSE 28)
    ELSE IF m \in {4, 6, 9, 11} THEN 30 ELSE 31

\* dayjs(`${y}-${m}-${d}`)
dayjs(y, m, d) == [y |-> y, m |-> m, d |-> d]

isValidDate(x) == x.m \in 1..12 /\ x.d \in 1..daysInMonth(x.y, x.m)

\* accessors year(), month() (0-based), date()
year(x) == x.y
month(x) == x.m - 1
date(x) == x.d

daysBeforeYear(y) ==
    365 * (y - 1) + ((y - 1) \div 4) - ((y - 1) \div 100) + ((y - 1) \div 400)

daysBeforeMonth(y, m) ==
    <<0, 31, 59, 90, 120, 151, 181, 212, 243, 273, 304, 334>>[m]
    + (IF m > 2 /\ isLeapYear(y) THEN 1 ELSE 0)

\* number of the calendar day of x (days since 31.12.0000)
dayNumber(x) == daysBeforeYear(x.y) + daysBeforeMonth(x.y, x.m) + x.d

\* hour(), and the same date at another hour
hour(x) == IF "h" \in DOMAIN x THEN x.h ELSE 0
atHour(x, h) ==
    IF h = 0 THEN [y |-> x.y, m |-> x.m, d |-> x.d]
    ELSE [y |-> x.y, m |-> x.m, d |-> x.d, h |-> h]

\* valueOf() in hours; the offset of the local time zone cancels in every
\* difference and comparison
hourNumber(x) == dayNumber(x) * 24 + hour(x)

\* a.diff(b, "day"): the elapsed time in days, truncated towards zero
diff(a, b) ==
    LET elapsed == hourNumber(a) - hourNumber(b)
    IN  IF elapsed >= 0 THEN elapsed \div 24 ELSE -((-elapsed) \div 24)

\* a.isAfter(b)
isAfter(a, b) == hourNumber(a) > hourNumber(b)

\* a.isBefore(b)
isBefore(a, b) == hourNumber(a) < hourNumber(b)

\* a.isBefore(b, "day")
isBeforeDay(a, b) == dayNumber(a) < dayNumber(b)

\* dayjs(`${y}-12-31`).add(1, "day")
endOfYearPlusOneDay(y) == dayjs(y + 1, 1, 1)

\* x.subtract(1, "day")
subtractOneDay(x) ==
    IF x.d > 1 THEN [x EXCEPT !.d = x.d - 1]
    ELSE IF x.m > 1 THEN [x EXCEPT !.m = x.m - 1, !.d = daysInMonth(x.y, x.m - 1)]
    ELSE [x EXCEPT !.y = x.y - 1, !.m = 12, !.d = 31]

\* a value that may be missing: null / undefined, or a value
Null == <<>>
Some(x) == <<x>>

-----------------------------------------------------------------------------
(* calculate30360Days *)

calculate30360Days_capStartOnly(startDate, endDate) ==
    LET d1 == IF date(startDate) = 31 THEN 30 ELSE date(startDate)
        d2 == date(endDate)
    IN  (year(endDate) - year(startDate)) * 360
        + ((month(endDate) + 1) - (month(startDate) + 1)) * 30 + (d2 - d1) + 1

calculate30360Days(startDate, endDate) ==
    LET d1 == IF date(startDate) = 31 THEN 30 ELSE date(startDate)
        m1 == month(startDate) + 1
        y1 == year(startDate)
        d2 == IF date(endDate) = 31 THEN 30 ELSE date(endDate)
        m2 == month(endDate) + 1
        y2 == year(endDate)
    IN  (y2 - y1) * 360 + (m2 - m1) * 30 + (d2 - d1) + 1

-----------------------------------------------------------------------------
(* calculateEffectiveYearBasis *)

yearDaysOf_always366(currentYear) == 366

yearDaysOf(currentYear) == IF isLeapYear(currentYear) THEN 366 ELSE 365

yearEndInPeriod_noExtraDay(currentYear, startDate, endDate) ==
    IF currentYear = year(startDate)
    THEN dayjs(currentYear, 12, 31)
    ELSE IF currentYear = year(endDate) THEN endDate
    ELSE endOfYearPlusOneDay(currentYear)

\* yearStartInPeriod of one iteration
yearStartInPeriod(currentDate, startDate) ==
    IF year(currentDate) = year(startDate) THEN currentDate
    ELSE dayjs(year(currentDate), 1, 1)

\* yearEndInPeriod of one iteration
yearEndInPeriod(currentYear, startDate, endDate) ==
    IF currentYear = year(startDate)
    THEN IF isAfter(endOfYearPlusOneDay(currentYear), endDate)
         THEN endDate
         ELSE endOfYearPlusOneDay(currentYear)
    ELSE IF currentYear = year(endDate) THEN endDate
    ELSE endOfYearPlusOneDay(currentYear)

\* one iteration of the while loop: the year, its weight and its length
yearIteration(currentDate, startDate, endDate) ==
    LET currentYear == year(currentDate)
    IN  [currentYear |-> currentYear,
         daysInThisYear |->
             diff(yearEndInPeriod(currentYear, startDate, endDate),
                  yearStartInPeriod(currentDate, startDate)) + 1,
         yearDays |-> yearDaysOf(currentYear)]

yearLoop_once(currentDate, startDate, endDate, done) ==
    IF year(currentDate) <= year(endDate)
    THEN Append(done, yearIteration(currentDate, startDate, endDate))
    ELSE done

\* the while loop: the sequence of its iterations
RECURSIVE yearLoop(_, _, _, _)
yearLoop(currentDate, startDate, endDate, done) ==
    IF year(currentDate) <= year(endDate)
    THEN yearLoop(dayjs(year(currentDate) + 1, 1, 1), startDate, endDate,
                  Append(done, yearIteration(currentDate, startDate, endDate)))
    ELSE done

\* the iterations of the loop for a period; none for a single-year period,
\* which returns before the loop
yearIterations(startDate, endDate) ==
    IF year(startDate) = year(endDate) THEN <<>>
    ELSE yearLoop(startDate, startDate, endDate, <<>>)

RECURSIVE sumTotalDays(_)
sumTotalDays(its) ==
    IF its = <<>> THEN 0 ELSE Head(its).daysInThisYear + sumTotalDays(Tail(its))

RECURSIVE sumWeightedYearDays(_)
sumWeightedYearDays(its) ==
    IF its = <<>> THEN 0
    ELSE Head(its).daysInThisYear * Head(its).yearDays
         + sumWeightedYearDays(Tail(its))

calculateEffectiveYearBasis_always365(startDate, endDate) ==
    [num |-> 365, den |-> 1]

calculateEffectiveYearBasis_undivided(startDate, endDate) ==
    IF year(startDate) = year(endDate)
    THEN [num |-> yearDaysOf(year(startDate)), den |-> 1]
    ELSE [num |-> sumWeightedYearDays(yearIterations(startDate, endDate)),
          den |-> 1]

calculateEffectiveYearBasis(startDate, endDate) ==
    IF year(startDate) = year(endDate)
    THEN [num |-> yearDaysOf(year(startDate)), den |-> 1]
    ELSE LET its == yearIterations(startDate, endDate)
             totalDays == sumTotalDays(its)
             weightedYearDays == sumWeightedYearDays(its)
         IN  IF totalDays > 0
             THEN [num |-> weightedYearDays, den |-> totalDays]
             ELSE [num |-> 365, den |-> 1]

-----------------------------------------------------------------------------
(* calculateInterest *)

conventionOf_default30360(e) ==
    IF e.dayCountConvention = "none" THEN "30/360" ELSE e.dayCountConvention

\* entry.dayCountConvention || "actual"
conventionOf(e) ==
    IF e.dayCountConvention = "none" THEN "actual" ELSE e.dayCountConvention

daysOf_exclusive(convention, startDate, endDate) ==
    IF convention = "30/360" THEN calculate30360Days(startDate, endDate)
    ELSE diff(endDate, startDate)

\* the value assigned to days
daysOf(convention, startDate, endDate) ==
    IF convention = "30/360" THEN calculate30360Days(startDate, endDate)
    ELSE diff(endDate, startDate) + 1

\* the value assigned to yearBasis
yearBasisOf(convention, startDate, endDate) ==
    IF convention = "30/360" THEN [num |-> 360, den |-> 1]
    ELSE calculateEffectiveYearBasis(startDate, endDate)

interestTimes100_rateSquared(nominal, zinssatz, d, yb) ==
    LET n == nominal * zinssatz * zinssatz * d
    IN  [whole |-> (n \div yb.num) * yb.den + (((n % yb.num) * yb.den) \div yb.num),
         rem   |-> ((n % yb.num) * yb.den) % yb.num,
         den   |-> yb.num]

\* (nominal * (zinssatz / 100) * (days / yearBasis)) * 100, exactly, as
\* whole + rem/den with 0 <= rem < den.  The product n * yb.den is split
\* (n = a * yb.num + b) so that every intermediate value stays below 2^31.
interestTimes100(nominal, zinssatz, d, yb) ==
    LET n == nominal * zinssatz * d
        a == n \div yb.num
        b == n % yb.num
    IN  [whole |-> a * yb.den + ((b * yb.den) \div yb.num),
         rem   |-> (b * yb.den) % yb.num,
         den   |-> yb.num]

MathRound_floor(x) == x.whole

MathRound_toEuro(x) == 100 * ((x.whole + 50) \div 100)

\* Math.round: the nearest integer, a tie going towards +Infinity
MathRound(x) == x.whole + (IF 2 * x.rem >= x.den THEN 1 ELSE 0)

NoInterest == [whole |-> 0, rem |-> 0, den |-> 1]

-----------------------------------------------------------------------------
(* AppLayout: the interest figures of one KontoData.  The component exists  *)
(* in two source files, src/unnamed/part_003 and src/src/AppLayout.tsx; f   *)
(* names the file whose code runs.  Both annualize with a fixed 365.        *)

Part003 == "part_003"
AppLayoutTsx == "AppLayout.tsx"
AppTsx == "App.tsx"
Part001 == "part_001"

\* calculateInterest of part_003: days from the day before the start
calculateInterest_part003(e, pStart, pEnd) ==
    LET effectiveStart == subtractOneDay(pStart)
        d == diff(pEnd, effectiveStart)
    IN  MathRound(interestTimes100(e.nominal, e.zinssatz, d, [num |-> 365, den |-> 1]))

\* calculateInterest of AppLayout.tsx
calculateInterest_AppLayoutTsx(e, startDatum, endDatum) ==
    LET d == diff(endDatum, startDatum)
    IN  MathRound(interestTimes100(e.nominal, e.zinssatz, d, [num |-> 365, den |-> 1]))

layoutCalculateInterest(f, e, startDatum, endDatum) ==
    IF f = Part003 THEN calculateInterest_part003(e, startDatum, endDatum)
    ELSE calculateInterest_AppLayoutTsx(e, startDatum, endDatum)

calculateSingleInterest(f, e) ==
    layoutCalculateInterest(f, e, e.startDatum, e.endDatum)

\* calculateQuarterlySingleInterest of part_003
calculateQuarterlySingleInterest_part003(e, qB, qE) ==
    IF qB = Null \/ qE = Null THEN 0
    ELSE IF isBefore(qE[1], e.startDatum) THEN 0
    ELSE IF isBefore(qB[1], e.startDatum)
         THEN calculateInterest_part003(e, e.startDatum, qE[1])
    ELSE IF isAfter(qE[1], e.endDatum)
         THEN calculateInterest_part003(e, qB[1], e.endDatum)
    ELSE calculateInterest_part003(e, qB[1], qE[1])

\* calculateQuarterlySingleInterest of AppLayout.tsx
calculateQuarterlySingleInterest_AppLayoutTsx(e, qB, qE) ==
    IF qB = Null \/ qE = Null THEN 0
    ELSE IF isBefore(qE[1], e.startDatum) THEN 0
    ELSE IF isBefore(qB[1], e.startDatum)
         THEN calculateInterest_AppLayoutTsx(e, e.startDatum, qE[1])
    ELSE calculateInterest_AppLayoutTsx(e, qB[1], qE[1])

calculateQuarterlySingleInterest(f, e, qB, qE) ==
    IF f = Part003 THEN calculateQuarterlySingleInterest_part003(e, qB, qE)
    ELSE calculateQuarterlySingleInterest_AppLayoutTsx(e, qB, qE)

\* calculateAccumulatedInterest of part_003
calculateAccumulatedInterest_part003(e, qE) ==
    IF qE = Null THEN 0
    ELSE IF isBefore(qE[1], e.startDatum) THEN 0
    ELSE IF isAfter(qE[1], e.endDatum)
         THEN calculateInterest_part003(e, e.startDatum, e.endDatum)
    ELSE calculateInterest_part003(e, e.startDatum, qE[1])

\* calculateAccumulatedInterest of AppLayout.tsx
calculateAccumulatedInterest_AppLayoutTsx(e, qE) ==
    IF qE = Null THEN 0
    ELSE IF isBefore(qE[1], e.startDatum) THEN 0
    ELSE calculateInterest_AppLayoutTsx(e, e.startDatum, qE[1])

calculateAccumulatedInterest(f, e, qE) ==
    IF f = Part003 THEN calculateAccumulatedInterest_part003(e, qE)
    ELSE calculateAccumulatedInterest_AppLayoutTsx(e, qE)

\* entry.verbuchteRueckstellung || 0
paidOf(e) ==
    IF e.verbuchteRueckstellung = Null THEN 0 ELSE e.verbuchteRueckstellung[1]

reserveOf_clamped(kommulierte, verbuchte) ==
    IF kommulierte - verbuchte < 0 THEN 0 ELSE kommulierte - verbuchte

\* kommulierte - verbuchte (table column), accumulatedInterest - paid (report)
reserveOf(kommulierte, verbuchte) == kommulierte - verbuchte

RECURSIVE SumSeq(_)
SumSeq(xs) == IF xs = <<>> THEN 0 ELSE Head(xs) + SumSeq(Tail(xs))

\* array.reduce((sum, x) => sum + x, 0) and the Math.round(total * 100) / 100
\* of a sum of amounts in cents
reduceSum(xs) == SumSeq(xs)
roundTotal(total) == MathRound([whole |-> total, rem |-> 0, den |-> 1])

-----------------------------------------------------------------------------
(* AppLayout: what a render shows *)

\* the cells of one table row
tableRow(f, e, qB, qE) ==
    LET kommulierte == calculateAccumulatedInterest(f, e, qE)
    IN  [zinsen |-> calculateSingleInterest(f, e),
         kommulierteZinsen |-> kommulierte,
         quarterlyZinsen |-> calculateQuarterlySingleInterest(f, e, qB, qE),
         verbuchteRueckstellung |-> e.verbuchteRueckstellung,
         kommulierteSumme |-> reserveOf(kommulierte, paidOf(e))]

\* Table.Summary, columns 5 to 10
tableSummary(f, d, qB, qE) ==
    [nominal |-> reduceSum([i \in 1..Len(d) |-> d[i].nominal]),
     zinsen |-> reduceSum([i \in 1..Len(d) |-> calculateSingleInterest(f, d[i])]),
     kommulierteZinsen |->
         IF qE # Null
         THEN reduceSum([i \in 1..Len(d) |-> calculateAccumulatedInterest(f, d[i], qE)])
         ELSE 0,
     quarterlyZinsen |->
         IF qB # Null /\ qE # Null
         THEN reduceSum([i \in 1..Len(d) |->
                            calculateQuarterlySingleInterest(f, d[i], qB, qE)])
         ELSE 0,
     verbuchteRueckstellung |-> reduceSum([i \in 1..Len(d) |-> paidOf(d[i])]),
     kommulierteSumme |->
         reduceSum([i \in 1..Len(d) |->
                       calculateQuarterlySingleInterest(f, d[i], qB, qE) - paidOf(d[i])])]

calculateTotalInterest_fromRaw(f, d) ==
    LET n == reduceSum([i \in 1..Len(d) |->
                 d[i].nominal * d[i].zinssatz
                 * (diff(d[i].endDatum, d[i].startDatum)
                    + (IF f = Part003 THEN 1 ELSE 0))])
    IN  MathRound([whole |-> n \div 365, rem |-> n % 365, den |-> 365])

calculateTotalInterest(f, d) ==
    roundTotal(reduceSum([i \in 1..Len(d) |->
        layoutCalculateInterest(f, d[i], d[i].startDatum, d[i].endDatum)]))

calculateQuarterlyTotalInterest(f, d, qB, qE) ==
    IF qB = Null \/ qE = Null THEN 0
    ELSE roundTotal(reduceSum([i \in 1..Len(d) |->
             calculateQuarterlySingleInterest(f, d[i], qB, qE)]))

\* one render of the component; data is undefined until it is loaded
render(f, dOpt, qB, qE) ==
  LET d == IF dOpt = Null THEN <<>> ELSE dOpt[1] IN
    [rows |-> [i \in 1..Len(d) |-> tableRow(f, d[i], qB, qE)],
     summary |-> tableSummary(f, d, qB, qE),
     quarterlyTotalInterest |-> calculateQuarterlyTotalInterest(f, d, qB, qE),
     totalInterest |-> calculateTotalInterest(f, d)]

-----------------------------------------------------------------------------
(* AppLayout: handlePrint *)

\* the figures the report shows for one KontoData
reportFigures(f, e, qB, qE) ==
    LET accumulatedInterest == calculateAccumulatedInterest(f, e, qE)
        paid == paidOf(e)
    IN  [nominal |-> e.nominal,
         singleInterest |-> calculateSingleInterest(f, e),
         accumulated |-> accumulatedInterest,
         quarterly |-> calculateQuarterlySingleInterest(f, e, qB, qE),
         paid |-> paid,
         reserve |-> reserveOf(accumulatedInterest, paid)]

\* array.reduce over the positions idxs, of one figure
sumOver(figs, idxs, figure) ==
    reduceSum([k \in 1..Len(idxs) |-> figs[idxs[k]][figure]])

\* the totals of the KontoData at the positions idxs; figs[i] are the
\* figures of data[i]
reportTotals(figs, idxs) ==
    LET accumulated == sumOver(figs, idxs, "accumulated")
        paid == sumOver(figs, idxs, "paid")
    IN  [nominal |-> sumOver(figs, idxs, "nominal"),
         singleInterest |-> sumOver(figs, idxs, "singleInterest"),
         accumulated |-> accumulated,
         quarterly |-> sumOver(figs, idxs, "quarterly"),
         paid |-> paid,
         reserve |-> accumulated - paid]

\* the bank names of the model in the order of localeCompare
BankOrder == <<"a", "A", "B">>

\* one bank group of buildTableContent: its rows and its totals
bankGroup(figs, members, bankName) ==
    [bankName |-> bankName,
     members |-> members,
     rows |-> [k \in 1..Len(members) |-> figs[members[k]]],
     totals |-> reportTotals(figs, members)]

\* buildTableContent: the positions sorted by bankName (a stable sort) and
\* grouped by exact bankName
buildTableContent(d, figs, idxs) ==
    LET membersOf(b) == SelectSeq(idxs, LAMBDA i : d[i].bankName = b)
        present == SelectSeq(BankOrder, LAMBDA b : membersOf(b) # <<>>)
    IN  [g \in 1..Len(present) |-> bankGroup(figs, membersOf(present[g]), present[g])]

\* the two filters of part_003: a KontoData is active when its term
\* overlaps the window, inactive when it does not
active_part003(e, qB, qE) ==
    ~(hourNumber(e.endDatum) < hourNumber(qB[1])
      \/ hourNumber(e.startDatum) > hourNumber(qE[1]))

inactive_part003_endOnly(e, qB, qE) ==
    hourNumber(e.endDatum) < hourNumber(qB[1])

inactive_part003(e, qB, qE) ==
    hourNumber(e.endDatum) < hourNumber(qB[1])
    \/ hourNumber(e.startDatum) > hourNumber(qE[1])

\* the two filters of AppLayout.tsx: expired when the term ended before today
active_AppLayoutTsx(e, now) == ~isBeforeDay(e.endDatum, now)
expired_AppLayoutTsx(e, now) == isBeforeDay(e.endDatum, now)

\* the report of handlePrint
printReport(f, d, qB, qE, now) ==
    LET all == [i \in 1..Len(d) |-> i]
        figs == [i \in 1..Len(d) |-> reportFigures(f, d[i], qB, qE)]
        activeData ==
            SelectSeq(all, LAMBDA i : IF f = Part003 THEN active_part003(d[i], qB, qE)
                                      ELSE active_AppLayoutTsx(d[i], now))
        inactiveData ==
            SelectSeq(all, LAMBDA i : IF f = Part003 THEN inactive_part003(d[i], qB, qE)
                                      ELSE expired_AppLayoutTsx(d[i], now))
    IN  [activeTable |-> buildTableContent(d, figs, activeData),
         expiredTable |-> buildTableContent(d, figs, inactiveData),
         activeTotal |-> reportTotals(figs, activeData),
         expiredTotal |-> reportTotals(figs, inactiveData),
         allTotal |-> reportTotals(figs, all)]

\* no "create-print-window" message is in flight
NoReport == Null

-----------------------------------------------------------------------------
(* State machine *)

Dates == {x \in {dayjs(y, md[1], md[2]) : y \in Years, md \in MonthDays} :
            isValidDate(x)}

\* hours of the day at which a second call places its dates
Hours == {0, 12}

TypeOK ==
    /\ pc \in {"called", "returned", "idle"}
    /\ days \in Int
    /\ roundedInterest \in Int
    /\ Len(history) <= 4
    /\ layoutFile \in {"none", Part003, AppLayoutTsx, AppTsx, Part001}
    /\ data = Null \/ Len(data[1]) <= MaxKonten + MaxSubmissions
    /\ loadRequest \in {"none", "pending", "resolved"}
    /\ loaded = Null \/ Len(loaded[1]) <= MaxKonten
    /\ effectPending \in BOOLEAN
    /\ saved = Null \/ Len(saved[1]) <= MaxKonten + MaxSubmissions
    /\ submissions \in 0..MaxSubmissions

\* AppLayout is not mounted
NoLayout ==
    /\ layoutFile = "none"
    /\ data = Null
    /\ quartalsBeginn = Null
    /\ quartalsEnde = Null
    /\ printed = NoReport
    /\ loadRequest = "none"
    /\ loaded = Null
    /\ effectPending = FALSE
    /\ saved = Null
    /\ submissions = 0

Init ==
    /\ \E a \in Amounts, c \in Conventions :
          entry = [nominal |-> a[1], zinssatz |-> a[2], dayCountConvention |-> c]
    /\ pStartDatum \in Dates
    /\ pEndDatum \in {x \in Dates : year(x) - year(pStartDatum) \in -MaxYearSpan..MaxYearSpan}
    /\ pc = "called"
    /\ days = 0
    /\ yearBasis = [num |-> 0, den |-> 1]
    /\ loopTrace = <<>>
    /\ interest = NoInterest
    /\ roundedInterest = 0
    /\ history = <<>>
    /\ NoLayout

calculateInterest_noGuard ==
    /\ pc = "called"
    /\ LET convention == conventionOf(entry)
           d == daysOf(convention, pStartDatum, pEndDatum)
           yb == yearBasisOf(convention, pStartDatum, pEndDatum)
       IN  /\ days' = d
           /\ yearBasis' = yb
           /\ loopTrace' = IF convention = "30/360" THEN <<>>
                           ELSE yearIterations(pStartDatum, pEndDatum)
           /\ interest' = interestTimes100(entry.nominal, entry.zinssatz, d, yb)
           /\ roundedInterest' = MathRound(interest')
    /\ pc' = "returned"
    /\ UNCHANGED <<entry, pStartDatum, pEndDatum, history>>
    /\ UNCHANGED layoutVars

\* the body of calculateInterest, from the call to the return
calculateInterest ==
    /\ pc = "called"
    /\ LET convention == conventionOf(entry)
           d == daysOf(convention, pStartDatum, pEndDatum)
           yb == yearBasisOf(convention, pStartDatum, pEndDatum)
       IN  /\ days' = d
           /\ yearBasis' = yb
           /\ loopTrace' = IF convention = "30/360" THEN <<>>
                           ELSE yearIterations(pStartDatum, pEndDatum)
           /\ IF d <= 0
              THEN /\ interest' = NoInterest
                   /\ roundedInterest' = 0
              ELSE /\ interest' = interestTimes100(entry.nominal, entry.zinssatz, d, yb)
                   /\ roundedInterest' = MathRound(interest')
    /\ pc' = "returned"
    /\ UNCHANGED <<entry, pStartDatum, pEndDatum, history>>
    /\ UNCHANGED layoutVars

Next == calculateInterest

Spec == Init /\ [][Next]_vars

-----------------------------------------------------------------------------
(* Two calls of calculateInterest, the second with arguments derived from   *)
(* the first                                                                *)

\* the call that has returned, as remembered by the caller
returnedCall ==
    [entry |-> entry, pStartDatum |-> pStartDatum, pEndDatum |-> pEndDatum,
     roundedInterest |-> roundedInterest]

\* the caller keeps the result and calls again
callAgain(e, s, t) ==
    /\ pc = "returned"
    /\ history = <<>>
    /\ history' = <<returnedCall>>
    /\ entry' = e
    /\ pStartDatum' = s
    /\ pEndDatum' = t
    /\ pc' = "called"
    /\ UNCHANGED <<days, yearBasis, loopTrace, interest, roundedInterest>>
    /\ UNCHANGED layoutVars

\* createEntry(k * nominal, zinssatz), same dates
callWithScaledNominal ==
    \E k \in 1..MaxScale :
        callAgain([entry EXCEPT !.nominal = k * entry.nominal], pStartDatum, pEndDatum)

\* createEntry(nominal, 2 * zinssatz), same dates
callWithDoubledRate ==
    callAgain([entry EXCEPT !.zinssatz = 2 * entry.zinssatz], pStartDatum, pEndDatum)

\* same entry, the same calendar dates at other times of the day
callAtOtherTimes ==
    \E hs \in Hours, he \in Hours :
        callAgain(entry, atHour(pStartDatum, hs), atHour(pEndDatum, he))

NextCalls ==
    \/ calculateInterest
    \/ callWithScaledNominal
    \/ callWithDoubledRate
    \/ callAtOtherTimes

SpecCalls == Init /\ [][NextCalls]_vars

-----------------------------------------------------------------------------
(* Five calls of calculateInterest for one entry: the calendar year, then    *)
(* its four quarters                                                         *)

\* createEntry(nominal, zinssatz) of the quarterly comparison
QuarterAmounts == Amounts \cup {<<1, 2>>, <<50, 1>>, <<1234, 7>>}

\* the dates of quarter q of year y
quarterStart(y, q) == dayjs(y, 3 * q - 2, 1)
quarterEnd(y, q) == dayjs(y, 3 * q, IF q \in {1, 4} THEN 31 ELSE 30)

\* the call over [1 Jan, 31 Dec]
InitQuarters ==
    /\ \E a \in QuarterAmounts, c \in Conventions :
          entry = [nominal |-> a[1], zinssatz |-> a[2], dayCountConvention |-> c]
    /\ \E y \in Years :
          /\ pStartDatum = dayjs(y, 1, 1)
          /\ pEndDatum = dayjs(y, 12, 31)
    /\ pc = "called"
    /\ days = 0
    /\ yearBasis = [num |-> 0, den |-> 1]
    /\ loopTrace = <<>>
    /\ interest = NoInterest
    /\ roundedInterest = 0
    /\ history = <<>>
    /\ NoLayout

\* the caller keeps the result and calls for the next quarter
callQuarter ==
    /\ pc = "returned"
    /\ Len(history) < 4
    /\ history' = Append(history, returnedCall)
    /\ pStartDatum' = quarterStart(year(pStartDatum), Len(history) + 1)
    /\ pEndDatum' = quarterEnd(year(pStartDatum), Len(history) + 1)
    /\ pc' = "called"
    /\ UNCHANGED <<entry, days, yearBasis, loopTrace, interest, roundedInterest>>
    /\ UNCHANGED layoutVars

NextQuarters ==
    \/ calculateInterest
    \/ callQuarter

SpecQuarters == InitQuarters /\ [][NextQuarters]_vars

-----------------------------------------------------------------------------
(* Two calls of calculateInterest under actual/actual for one position and   *)
(* one start date, the second with a later end date                          *)

\* a position with nominal >= 0 and rate >= 0 over a period with
\* end >= start
InitLaterEnd ==
    /\ Init
    /\ entry.dayCountConvention # "30/360"
    /\ entry.nominal >= 0
    /\ entry.zinssatz >= 0
    /\ ~isBefore(pEndDatum, pStartDatum)

\* same entry and start date, a later end date
callWithLaterEnd ==
    \E t \in Dates :
        /\ isAfter(t, pEndDatum)
        /\ year(t) - year(pStartDatum) <= MaxYearSpan
        /\ callAgain(entry, pStartDatum, t)

NextLaterEnd ==
    \/ calculateInterest
    \/ callWithLaterEnd

SpecLaterEnd == InitLaterEnd /\ [][NextLaterEnd]_vars

-----------------------------------------------------------------------------
(* AppLayout as a state machine: mount, load-data, the reporting window,    *)
(* the add form, the delete button and the booked interest of a row, and    *)
(* handlePrint.  What the screen shows is a function of the rendered state. *)
(* Interest figures are in cents, nominal and zinssatz as numbers.          *)
(*                                                                          *)
(* Rendering.  The callback of the load-data promise calls setData and      *)
(* returns; the render with the loaded list and the effects after it run    *)
(* when React schedules them, so a handler can run in between and then      *)
(* reads the list of the previous render (action render).  A handler        *)
(* called from a user event is rendered, with its effects, before the       *)
(* event ends: each such handler is one step.                               *)

\* (bankName, nominal, zinssatz, startDatum, endDatum) of the stored
\* KontoData: a term that has ended on the day of the report and a running
\* term at two banks whose names differ in case only
Terms == {<<"A", 1000, 5, dayjs(2024, 1, 1), dayjs(2024, 3, 31)>>,
          <<"A", 2500, 3, dayjs(2024, 2, 15), dayjs(2024, 12, 31)>>,
          <<"a", 2500, 3, dayjs(2024, 2, 15), dayjs(2024, 12, 31)>>}

\* stored KontoData; data written before verbuchteRueckstellung existed
\* carries no such field
Konten ==
    {[bankName |-> t[1], kontoNumber |-> "DE01", nominal |-> t[2], zinssatz |-> t[3],
      startDatum |-> t[4], endDatum |-> t[5],
      verbuchteRueckstellung |-> Null] : t \in Terms}

RECURSIVE KontoLists(_)
KontoLists(n) ==
    IF n = 0 THEN {<<>>}
    ELSE KontoLists(n - 1)
         \cup {Append(l, k) : l \in {x \in KontoLists(n - 1) : Len(x) = n - 1},
                              k \in Konten}

\* days the RangePicker offers
WindowDates == {dayjs(2023, 12, 1), dayjs(2024, 1, 1), dayjs(2024, 3, 31),
                dayjs(2025, 1, 15)}

\* the ranges the RangePicker delivers: start and end in order
PickerRanges == {w \in WindowDates \X WindowDates : ~isBefore(w[2], w[1])}

\* values the InputNumber of booked interest delivers, in cents (Null would
\* be the emptied field)
BookedInputs == {Some(100000)}

\* the day on which the report is printed
Todays == {dayjs(2024, 4, 10)}

NoCall ==
    /\ entry = [nominal |-> 0, zinssatz |-> 0, dayCountConvention |-> "none"]
    /\ pStartDatum = dayjs(2024, 1, 1)
    /\ pEndDatum = dayjs(2024, 1, 1)
    /\ pc = "idle"
    /\ days = 0
    /\ yearBasis = [num |-> 0, den |-> 1]
    /\ loopTrace = <<>>
    /\ interest = NoInterest
    /\ roundedInterest = 0
    /\ history = <<>>

\* Dayjs.toJSON: the ISO string of the instant, as its fields
toISOString(x) == <<year(x), x.m, date(x), hour(x)>>

\* dayjs(string) of an ISO string
parseISOString(t) ==
    IF t[4] = 0 THEN dayjs(t[1], t[2], t[3]) ELSE atHour(dayjs(t[1], t[2], t[3]), t[4])

\* JSON.stringify(data, null, 2): every Dayjs becomes its ISO string, a
\* field that is undefined is left out
JSONstringify(l) ==
    [i \in 1..Len(l) |->
        [l[i] EXCEPT !.startDatum = toISOString(@), !.endDatum = toISOString(@)]]

\* JSON.parse(fileData).map(...): the dates become Dayjs values again
parsedData(records) ==
    [i \in 1..Len(records) |->
        [records[i] EXCEPT !.startDatum = parseISOString(@),
                           !.endDatum = parseISOString(@)]]

\* what load-data resolves to: the empty string, text that is not JSON, or
\* the JSON text of a stored list
StoredFiles ==
    {[kind |-> "empty", records |-> <<>>], [kind |-> "unparseable", records |-> <<>>]}
        \cup {[kind |-> "json", records |-> JSONstringify(l)] : l \in KontoLists(MaxKonten)}

\* the number a non-empty sequence of decimal digits denotes
RECURSIVE decimal(_)
decimal(t) ==
    IF Len(t) = 1 THEN t[1] ELSE 10 * decimal(SubSeq(t, 1, Len(t) - 1)) + t[Len(t)]

NaN == "NaN"

\* parseFloat of the text of a number field; the text is a sequence of
\* decimal digits, the empty text gives NaN
parseFloat(t) == IF t = <<>> THEN NaN ELSE decimal(t)

\* values of the validated add form of AppLayout
FormValues ==
    {[bankName |-> "a", kontoNumber |-> "DE02",
      dateRange |-> <<dayjs(2024, 1, 1), dayjs(2024, 3, 31)>>,
      zinssatz |-> <<5>>, nominal |-> <<1, 0, 0, 0>>]}

\* the fields of the form of App.tsx filled in completely
CompleteFields ==
    {[bankName |-> "A", kontoNumber |-> "DE02",
      startDatum |-> Some(dayjs(2024, 1, 1)), endDatum |-> Some(dayjs(2024, 3, 31)),
      zinssatz |-> <<5>>, nominal |-> <<1, 0, 0, 0>>],
     [bankName |-> "a", kontoNumber |-> "DE03",
      startDatum |-> Some(dayjs(2024, 2, 15)), endDatum |-> Some(dayjs(2024, 12, 31)),
      zinssatz |-> <<3>>, nominal |-> <<2, 5, 0, 0>>]}

\* the fields of App.tsx as they stand at a click on the add button:
\* complete, or with one field still in its initial state ('' or null)
FormFields ==
    CompleteFields
        \cup {[v EXCEPT !.bankName = ""] : v \in CompleteFields}
        \cup {[v EXCEPT !.kontoNumber = ""] : v \in CompleteFields}
        \cup {[v EXCEPT !.startDatum = Null] : v \in CompleteFields}
        \cup {[v EXCEPT !.endDatum = Null] : v \in CompleteFields}
        \cup {[v EXCEPT !.zinssatz = <<>>] : v \in CompleteFields}
        \cup {[v EXCEPT !.nominal = <<>>] : v \in CompleteFields}

\* newKonto of handleAddKonto of App.tsx
newKonto_AppTsx(values) ==
    [bankName |-> values.bankName, kontoNumber |-> values.kontoNumber,
     startDatum |-> values.startDatum[1], endDatum |-> values.endDatum[1],
     zinssatz |-> parseFloat(values.zinssatz),
     nominal |-> parseFloat(values.nominal),
     verbuchteRueckstellung |-> Null]

\* newKonto of handleAddKonto of AppLayout
newKonto_AppLayout(values) ==
    [bankName |-> values.bankName, kontoNumber |-> values.kontoNumber,
     startDatum |-> values.dateRange[1], endDatum |-> values.dateRange[2],
     zinssatz |-> parseFloat(values.zinssatz),
     nominal |-> parseFloat(values.nominal),
     verbuchteRueckstellung |-> Some(0)]

\* the component is mounted: useState initial values and the first render
InitLayout ==
    /\ NoCall
    /\ layoutFile \in {Part003, AppLayoutTsx}
    /\ data = Null
    /\ quartalsBeginn = Null
    /\ quartalsEnde = Null
    /\ printed = NoReport
    /\ loadRequest = "pending"
    /\ loaded = Null
    /\ effectPending = FALSE
    /\ saved = Null
    /\ submissions = 0

\* what the screen shows: the render of the current state
rendered == render(layoutFile, data, quartalsBeginn, quartalsEnde)

\* the save-data effect of App.tsx, run with the list d: an empty list is
\* not sent
saveEffect_AppTsx(d, payload) ==
    IF Len(d[1]) > 0 THEN Some(JSONstringify(d[1])) ELSE payload

\* the save-data effect of AppLayout, run with the list d: data that is
\* undefined is not sent
saveEffect_AppLayout(d, payload) ==
    IF d = Null THEN payload ELSE Some(JSONstringify(d[1]))

\* the payload of the most recent save-data message after the effect has
\* run with d
saveEffect(f, d, payload) ==
    IF f \in {AppTsx, Part001} THEN saveEffect_AppTsx(d, payload)
    ELSE saveEffect_AppLayout(d, payload)

\* the render after state has been set in a handler of a user event, and
\* the effects of that render.  Effects of an earlier render that have not
\* run yet are run before the render; the save-data effect depends on
\* [data] and runs when data has been set.
commit(d, qB, qE, dataSet) ==
    LET flushed == IF effectPending THEN saveEffect(layoutFile, data, saved) ELSE saved
    IN  /\ data' = d
        /\ quartalsBeginn' = qB
        /\ quartalsEnde' = qE
        /\ saved' = IF dataSet THEN saveEffect(layoutFile, d, flushed) ELSE flushed
        /\ effectPending' = FALSE
        /\ UNCHANGED layoutFile
        /\ UNCHANGED calcVars

\* setData(d) in a handler of a user event, and the render that ends the
\* event.  The list a load-data callback has set before and that is not yet
\* rendered is replaced by d, the later update of the same state.
setData(d) ==
    /\ commit(d, quartalsBeginn, quartalsEnde, TRUE)
    /\ loaded' = Null

\* setQuartalsBeginn / setQuartalsEnde in a handler of a user event, and
\* the render that ends the event
setState(d, qB, qE) ==
    /\ commit(d, qB, qE, FALSE)
    /\ UNCHANGED loaded

\* a handler that returns without a new state: nothing is rendered
noUpdate ==
    /\ UNCHANGED <<layoutFile, data, quartalsBeginn, quartalsEnde>>
    /\ UNCHANGED <<loaded, effectPending, saved>>
    /\ UNCHANGED calcVars

\* the callback of the load-data promise: text that is not empty and parses
\* is handed to setData; the callback returns before the next render
loadData ==
    /\ loadRequest = "pending"
    /\ loadRequest' = "resolved"
    /\ \E fileData \in StoredFiles :
          loaded' = IF fileData.kind = "json"
                    THEN Some(parsedData(fileData.records))
                    ELSE loaded
    /\ printed' = NoReport
    /\ UNCHANGED <<layoutFile, data, quartalsBeginn, quartalsEnde>>
    /\ UNCHANGED <<effectPending, saved, submissions>>
    /\ UNCHANGED calcVars

\* React renders the update of the load-data callback and commits it; the
\* effects of the render are still to run
render_loaded ==
    /\ loaded # Null
    /\ data' = loaded
    /\ loaded' = Null
    /\ effectPending' = TRUE
    /\ printed' = NoReport
    /\ UNCHANGED <<layoutFile, quartalsBeginn, quartalsEnde>>
    /\ UNCHANGED <<loadRequest, saved, submissions>>
    /\ UNCHANGED calcVars

\* the effects of the render of the loaded list: the save-data effect
useEffect_saveData ==
    /\ effectPending
    /\ effectPending' = FALSE
    /\ saved' = saveEffect(layoutFile, data, saved)
    /\ printed' = NoReport
    /\ UNCHANGED <<layoutFile, data, quartalsBeginn, quartalsEnde>>
    /\ UNCHANGED <<loadRequest, loaded, submissions>>
    /\ UNCHANGED calcVars

\* handleQuartalsRangeChange; the RangePicker delivers an ordered pair or null
handleQuartalsRangeChange ==
    /\ \E dates \in {Null} \cup PickerRanges :
          IF dates # Null
          THEN setState(data, Some(dates[1]), Some(dates[2]))
          ELSE IF quartalsBeginn = Null /\ quartalsEnde = Null
          THEN noUpdate
          ELSE setState(data, Null, Null)
    /\ printed' = NoReport
    /\ UNCHANGED <<loadRequest, submissions>>

\* onChange of the InputNumber of booked interest in row index
handleVerbuchteRueckstellungChange ==
    /\ data # Null
    /\ \E index \in 1..Len(data[1]), value \in BookedInputs :
          LET booked == IF value = Null THEN 0 ELSE value[1]
              newData == [data[1] EXCEPT ![index] =
                             [@ EXCEPT !.verbuchteRueckstellung = Some(booked)]]
          IN  setData(Some(newData))
    /\ printed' = NoReport
    /\ UNCHANGED <<loadRequest, submissions>>

\* handleAddKonto of App.tsx with the current fields of the form
handleAddKonto_AppTsx(values) ==
    IF /\ values.bankName # "" /\ values.kontoNumber # ""
       /\ values.startDatum # Null /\ values.endDatum # Null
       /\ values.zinssatz # <<>> /\ values.nominal # <<>>
    THEN setData(Some(Append(data[1], newKonto_AppTsx(values))))
    ELSE noUpdate

\* handleAddKonto of AppLayout with the values of the validated form
handleAddKonto_AppLayout(values) ==
    IF data = Null
    THEN noUpdate
    ELSE setData(Some(Append(data[1], newKonto_AppLayout(values))))

\* one submission of the add form
handleAddKonto ==
    /\ submissions < MaxSubmissions
    /\ submissions' = submissions + 1
    /\ IF layoutFile \in {AppTsx, Part001}
       THEN \E values \in FormFields : handleAddKonto_AppTsx(values)
       ELSE \E values \in FormValues : handleAddKonto_AppLayout(values)
    /\ printed' = NoReport
    /\ UNCHANGED loadRequest

\* updatedData.splice(index, 1)
splice(l, index) == [i \in 1..(Len(l) - 1) |-> IF i < index THEN l[i] ELSE l[i + 1]]

\* handleDeleteKonto(index): the delete button of a row of the table
handleDeleteKonto ==
    /\ data # Null
    /\ \E index \in 1..Len(data[1]) : setData(Some(splice(data[1], index)))
    /\ printed' = NoReport
    /\ UNCHANGED <<loadRequest, submissions>>

\* handlePrint: the report is sent with "create-print-window"
handlePrint ==
    /\ data # Null
    /\ layoutFile = Part003 => (quartalsBeginn # Null /\ quartalsEnde # Null)
    /\ \E now \in Todays :
          printed' = Some(printReport(layoutFile, data[1], quartalsBeginn, quartalsEnde, now))
    /\ UNCHANGED <<layoutFile, data, quartalsBeginn, quartalsEnde>>
    /\ UNCHANGED <<loadRequest, loaded, effectPending, saved, submissions>>
    /\ UNCHANGED calcVars

NextLayout ==
    \/ loadData
    \/ render_loaded
    \/ useEffect_saveData
    \/ handleQuartalsRangeChange
    \/ handleVerbuchteRueckstellungChange
    \/ handleAddKonto
    \/ handleDeleteKonto
    \/ handlePrint

SpecLayout == InitLayout /\ [][NextLayout]_vars

-----------------------------------------------------------------------------
(* App and the store: mount, load-data, the add button and the delete      *)
(* button, each followed by the save-data effect.  App exists in two        *)
(* source files, src/src/App.tsx and src/unnamed/part_001; part_001 has a   *)
(* print button.                                                            *)

\* x.add(n, "month"): the day of the month is capped to the length of the
\* month reached
addMonths(x, n) ==
    LET k == x.y * 12 + (x.m - 1) + n
        y == k \div 12
        m == (k % 12) + 1
        d == IF x.d > daysInMonth(y, m) THEN daysInMonth(y, m) ELSE x.d
    IN  [x EXCEPT !.y = y, !.m = m, !.d = d]

\* monthDiff(a, b) of dayjs for a.date() >= b.date(), as the fraction
\* num / den with den > 0
monthDiff_anchored(a, b) ==
    LET wholeMonthDiff == (year(b) - year(a)) * 12 + (month(b) - month(a))
        anchor == addMonths(a, wholeMonthDiff)
        c == hourNumber(b) - hourNumber(anchor) < 0
        anchor2 == addMonths(a, wholeMonthDiff + (IF c THEN -1 ELSE 1))
        span == IF c THEN hourNumber(anchor) - hourNumber(anchor2)
                ELSE hourNumber(anchor2) - hourNumber(anchor)
    IN  [num |-> -(wholeMonthDiff * span + (hourNumber(b) - hourNumber(anchor))),
         den |-> span]

\* monthDiff(a, b) of dayjs
monthDiff(a, b) ==
    IF date(a) < date(b)
    THEN LET r == monthDiff_anchored(b, a) IN [num |-> -r.num, den |-> r.den]
    ELSE monthDiff_anchored(a, b)

\* a.diff(b, "month"): monthDiff truncated towards zero
diffMonth(a, b) ==
    LET r == monthDiff(a, b)
    IN  IF r.num >= 0 THEN r.num \div r.den ELSE -((-r.num) \div r.den)

\* x.format("DD.MM.YYYY"): day, month and year of the date; the time of day
\* is not shown
formatDDMMYYYY(x) == <<date(x), month(x) + 1, year(x)>>

\* the rows of the table handlePrint of part_001 sends
printTable(l) ==
    [i \in 1..Len(l) |->
        [bankName |-> l[i].bankName,
         kontoNumber |-> l[i].kontoNumber,
         startDatum |-> formatDDMMYYYY(l[i].startDatum),
         endDatum |-> formatDDMMYYYY(l[i].endDatum),
         monthsBetween |-> diffMonth(l[i].endDatum, l[i].startDatum),
         zinssatz |-> l[i].zinssatz,
         nominal |-> l[i].nominal]]

\* handlePrint of part_001: the table of all positions is sent with
\* "create-print-window"
handlePrint_part001 ==
    /\ layoutFile = Part001
    /\ printed' = Some(printTable(data[1]))
    /\ UNCHANGED <<layoutFile, data, quartalsBeginn, quartalsEnde>>
    /\ UNCHANGED <<loadRequest, loaded, effectPending, saved, submissions>>
    /\ UNCHANGED calcVars

\* the component is mounted: useState initial values and the first render
InitStore ==
    /\ NoCall
    /\ layoutFile \in {AppTsx, Part001}
    /\ data = Some(<<>>)
    /\ quartalsBeginn = Null
    /\ quartalsEnde = Null
    /\ printed = NoReport
    /\ loadRequest = "pending"
    /\ loaded = Null
    /\ effectPending = FALSE
    /\ saved = Null
    /\ submissions = 0

NextStore ==
    \/ loadData
    \/ render_loaded
    \/ useEffect_saveData
    \/ handleAddKonto
    \/ handleDeleteKonto
    \/ handlePrint_part001

SpecStore == InitStore /\ [][NextStore]_vars

-----------------------------------------------------------------------------
(* Notions the properties are stated in, defined independently of the       *)
(* operators above                                                          *)

Actual == entry.dayCountConvention # "30/360"

\* a is a calendar date not after b
NotAfter(a, b) == \/ a.y < b.y
                  \/ a.y = b.y /\ a.m < b.m
                  \/ a.y = b.y /\ a.m = b.m /\ a.d <= b.d

Gregorian(y) == IF y % 400 = 0 THEN TRUE ELSE IF y % 100 = 0 THEN FALSE ELSE y % 4 = 0

MonthLength(y, m) ==
    CASE m \in {1, 3, 5, 7, 8, 10, 12} -> 31
      [] m \in {4, 6, 9, 11} -> 30
      [] OTHER -> IF Gregorian(y) THEN 29 ELSE 28

\* the number of midnights passed going from date a to a later date b,
\* counted month by month
RECURSIVE CalendarDiff(_, _)
CalendarDiff(a, b) ==
    IF a.y = b.y /\ a.m = b.m THEN b.d - a.d
    ELSE (MonthLength(a.y, a.m) - a.d + 1)
         + CalendarDiff([y |-> IF a.m = 12 THEN a.y + 1 ELSE a.y,
                         m |-> IF a.m = 12 THEN 1 ELSE a.m + 1,
                         d |-> 1], b)

\* r is an integer nearest to p / q (q > 0), whichever way a tie goes
IsNearest(r, p, q) == 2 * (r * q - p) <= q /\ 2 * (p - r * q) <= q

\* the mixed fraction x is exactly n / yb, for a year basis yb between 360
\* and 366 (the difference n * yb.den - x.whole * yb.num, taken around 365
\* so that every intermediate value stays small)
IsQuotient(x, n, yb) ==
    /\ x.den = yb.num
    /\ x.rem >= 0 /\ x.rem < x.den
    /\ yb.den * (n - x.whole * 365) - x.whole * (yb.num - 365 * yb.den) = x.rem

\* the inclusive sub-interval of calendar year y in the period [s, e]
SubInterval(y, s, e) ==
    [first |-> IF y = s.y THEN s ELSE [y |-> y, m |-> 1, d |-> 1],
     last  |-> IF y = e.y THEN e ELSE [y |-> y, m |-> 12, d |-> 31]]

InclusiveLength(iv) == CalendarDiff(iv.first, iv.last) + 1

RECURSIVE SumLengths(_, _, _)
SumLengths(y, s, e) ==
    IF y > e.y THEN 0
    ELSE InclusiveLength(SubInterval(y, s, e)) + SumLengths(y + 1, s, e)

RECURSIVE SumWeighted(_, _, _)
SumWeighted(y, s, e) ==
    IF y > e.y THEN 0
    ELSE InclusiveLength(SubInterval(y, s, e)) * (IF Gregorian(y) THEN 366 ELSE 365)
         + SumWeighted(y + 1, s, e)

-----------------------------------------------------------------------------
(* Properties *)

\* C1: under actual/actual, for end >= start, days is the calendar-day
\* difference plus one (both boundary days count); for start = end this is
\* exactly 1 day and the result is nominal * rate/100 * 1/basis rounded to
\* cents, which is 0.14 and not zero for 1000 at 5% in a leap year.
C1_InclusiveDayCount ==
    (pc = "returned" /\ Actual /\ NotAfter(pStartDatum, pEndDatum)) =>
        /\ days = CalendarDiff(pStartDatum, pEndDatum) + 1
        /\ pStartDatum = pEndDatum =>
              /\ days = 1
              /\ yearBasis.den = 1
              /\ IsNearest(roundedInterest, entry.nominal * entry.zinssatz,
                           yearBasis.num)
              /\ (entry.nominal = 1000 /\ entry.zinssatz = 5) => roundedInterest > 0

C1_Witness ==
    /\ pc = "returned" /\ Actual
    /\ pStartDatum = pEndDatum /\ pStartDatum = [y |-> 2024, m |-> 1, d |-> 1]
    /\ entry.nominal = 1000 /\ entry.zinssatz = 5
    /\ days = 1 /\ roundedInterest = 14

\* C2: for every pair of dates with end < start, under either convention,
\* the day count is <= 0 and the returned amount is 0.00.
C2_InvertedRangeIsZero ==
    (pc = "returned" /\ ~NotAfter(pStartDatum, pEndDatum)) =>
        (days <= 0 /\ roundedInterest = 0)

\* C3: for a period spanning several calendar years the year basis is
\* sum(d_i * b_i) / sum(d_i) over the sub-intervals [start, 31 Dec],
\* the full intermediate years and [1 Jan, end], with d_i the inclusive
\* length (last - first + 1) and b_i the length of the year.
C3_InclusiveWeightedBasis ==
    (pc = "returned" /\ Actual /\ pStartDatum.y < pEndDatum.y) =>
        yearBasis.num * SumLengths(pStartDatum.y, pStartDatum, pEndDatum)
            = SumWeighted(pStartDatum.y, pStartDatum, pEndDatum) * yearBasis.den

\* C4: when start and end lie in the same calendar year the actual/actual
\* year basis is 366 if that year is a Gregorian leap year and 365
\* otherwise; 1900 gives 365 and 2000 gives 366.
C4_SingleYearBasis ==
    (pc = "returned" /\ Actual /\ pStartDatum.y = pEndDatum.y) =>
        /\ yearBasis = [num |-> IF Gregorian(pStartDatum.y) THEN 366 ELSE 365,
                        den |-> 1]
        /\ pStartDatum.y = 1900 => yearBasis.num = 365
        /\ pStartDatum.y = 2000 => yearBasis.num = 366

C4_Witness ==
    /\ pc = "returned" /\ Actual
    /\ pStartDatum.y = 1900 /\ pEndDatum.y = 1900
    /\ yearBasis = [num |-> 365, den |-> 1]

\* C5: under 30/360 the day count is (endYear - startYear) * 360 +
\* (endMonth - startMonth) * 30 + (endDay' - startDay') + 1, where a day of
\* month of 31 is replaced by 30 on each date and any other is unchanged.
C5_ThirtyThreeSixtyDays ==
    (pc = "returned" /\ ~Actual) =>
        LET sd == IF pStartDatum.d = 31 THEN 30 ELSE pStartDatum.d
            ed == IF pEndDatum.d = 31 THEN 30 ELSE pEndDatum.d
        IN  days = (pEndDatum.y - pStartDatum.y) * 360
                   + (pEndDatum.m - pStartDatum.m) * 30 + (ed - sd) + 1

C5_Witness ==
    /\ pc = "returned" /\ ~Actual
    /\ pStartDatum = [y |-> 2023, m |-> 1, d |-> 30]
    /\ pEndDatum = [y |-> 2024, m |-> 12, d |-> 31]
    /\ days = 691

\* C6: the annualization basis is exactly 360 when the convention of the
\* position is 30/360 and the actual/actual year basis of (from, to)
\* otherwise, a position without convention counting as actual/actual;
\* 1000 at 6% from 01.01.2023 to 01.02.2023 under 30/360 gives 31 days,
\* basis 360 and 5.17.
C6_BasisByConvention ==
    pc = "returned" =>
        /\ entry.dayCountConvention = "30/360" =>
              yearBasis = [num |-> 360, den |-> 1]
        /\ entry.dayCountConvention \in {"actual", "none"} =>
              /\ yearBasis = calculateEffectiveYearBasis(pStartDatum, pEndDatum)
              /\ yearBasis.num >= 365 * yearBasis.den
              /\ NotAfter(pStartDatum, pEndDatum) =>
                    days = CalendarDiff(pStartDatum, pEndDatum) + 1
        /\ ( /\ entry = [nominal |-> 1000, zinssatz |-> 6,
                         dayCountConvention |-> "30/360"]
             /\ pStartDatum = [y |-> 2023, m |-> 1, d |-> 1]
             /\ pEndDatum = [y |-> 2023, m |-> 2, d |-> 1] ) =>
              (days = 31 /\ roundedInterest = 517)

C6_Witness ==
    /\ pc = "returned"
    /\ entry = [nominal |-> 1000, zinssatz |-> 6, dayCountConvention |-> "30/360"]
    /\ pStartDatum = [y |-> 2023, m |-> 1, d |-> 1]
    /\ pEndDatum = [y |-> 2023, m |-> 2, d |-> 1]
    /\ yearBasis = [num |-> 360, den |-> 1]
    /\ roundedInterest = 517

\* C7: for every input with days > 0 the returned amount is
\* nominal * (rate/100) * (days/basis) rounded to 2 fractional digits: the
\* rounded value is a whole number of cents nearest to the raw amount.
C7_RoundedProduct ==
    (pc = "returned" /\ days > 0) =>
        /\ IsQuotient(interest, entry.nominal * entry.zinssatz * days, yearBasis)
        /\ roundedInterest \in {interest.whole, interest.whole + 1}
        /\ roundedInterest = interest.whole => 2 * interest.rem <= interest.den
        /\ roundedInterest = interest.whole + 1 => 2 * interest.rem >= interest.den

C7_Witness ==
    /\ pc = "returned" /\ days > 0
    /\ yearBasis.den > 1
    /\ 2 * interest.rem > interest.den
    /\ roundedInterest = interest.whole + 1
    /\ roundedInterest > 0

\* C8: the final rounding is round-half-away-from-zero for every raw
\* amount, positive or negative: a raw amount exactly halfway between two
\* cents goes to the cent of larger magnitude (0.125 -> 0.13 and
\* -0.125 -> -0.13).
C8_RoundHalfAwayFromZero ==
    (pc = "returned" /\ days > 0 /\ 2 * interest.rem = interest.den) =>
        roundedInterest = IF interest.whole >= 0 THEN interest.whole + 1
                          ELSE interest.whole

\* C9: for a complete calendar year [1 Jan Y, 31 Dec Y] the actual/actual
\* day count equals the year basis and the result is exactly
\* nominal * rate/100 rounded to cents; 1000 at 5% gives 50.00.
C9_FullCalendarYear ==
    ( /\ pc = "returned" /\ Actual
      /\ pStartDatum = [y |-> pStartDatum.y, m |-> 1, d |-> 1]
      /\ pEndDatum = [y |-> pStartDatum.y, m |-> 12, d |-> 31] ) =>
        /\ days * yearBasis.den = yearBasis.num
        /\ roundedInterest = entry.nominal * entry.zinssatz
        /\ (entry.nominal = 1000 /\ entry.zinssatz = 5) => roundedInterest = 5000

C9_Witness ==
    /\ pc = "returned" /\ Actual
    /\ pStartDatum = [y |-> 2024, m |-> 1, d |-> 1]
    /\ pEndDatum = [y |-> 2024, m |-> 12, d |-> 31]
    /\ entry.nominal = 1000 /\ entry.zinssatz = 5
    /\ days = 366 /\ roundedInterest = 5000

\* C10: for 1000 at 5%, actual/actual, 01.12.2024 to 31.01.2025, the
\* year-basis weights are 32 days at 366 and 31 days at 365, the weighted
\* basis is about 365.51 and the returned interest lies in [8.40, 8.50].
C10_CrossYearExample ==
    ( /\ pc = "returned" /\ Actual
      /\ entry.nominal = 1000 /\ entry.zinssatz = 5
      /\ pStartDatum = [y |-> 2024, m |-> 12, d |-> 1]
      /\ pEndDatum = [y |-> 2025, m |-> 1, d |-> 31] ) =>
        /\ loopTrace = <<[currentYear |-> 2024, daysInThisYear |-> 32, yearDays |-> 366],
                         [currentYear |-> 2025, daysInThisYear |-> 31, yearDays |-> 365]>>
        /\ yearBasis.num * 63 = (32 * 366 + 31 * 365) * yearBasis.den
        /\ 36550 * yearBasis.den <= 100 * yearBasis.num
        /\ 100 * yearBasis.num <= 36552 * yearBasis.den
        /\ roundedInterest >= 840 /\ roundedInterest <= 850

C10_Witness ==
    /\ pc = "returned" /\ Actual
    /\ entry.nominal = 1000 /\ entry.zinssatz = 5
    /\ pStartDatum = [y |-> 2024, m |-> 12, d |-> 1]
    /\ pEndDatum = [y |-> 2025, m |-> 1, d |-> 31]
    /\ Len(loopTrace) = 2
    /\ roundedInterest = 848

-----------------------------------------------------------------------------
(* AppLayout: notions the properties are stated in *)

\* the positions on screen
Positions == IF data = Null THEN <<>> ELSE data[1]

WindowSelected == quartalsBeginn # Null /\ quartalsEnde # Null

\* calendar date a lies before calendar date b
Before(a, b) == ~NotAfter(b, a)

Earliest(a, b) == IF NotAfter(a, b) THEN a ELSE b
Latest(a, b) == IF NotAfter(a, b) THEN b ELSE a

\* the interest of position e over the range [from, to], as the component
\* computes interest over a range
RangeInterest(e, from, to) == layoutCalculateInterest(layoutFile, e, from, to)

\* booked interest of position e, nothing booked counting as 0
Booked(e) ==
    IF e.verbuchteRueckstellung = Null THEN 0 ELSE e.verbuchteRueckstellung[1]

-----------------------------------------------------------------------------
(* AppLayout: properties *)

\* C11: for every position and every window with start <= end, a window
\* lying entirely before the position's start date or entirely after its end
\* date gives an in-window (quarterly) interest of exactly 0.
C11_WindowOutsideTermIsZero ==
    LET shown == rendered IN
    \A i \in 1..Len(Positions) :
        ( /\ WindowSelected
          /\ NotAfter(quartalsBeginn[1], quartalsEnde[1])
          /\ \/ Before(quartalsEnde[1], Positions[i].startDatum)
             \/ Before(Positions[i].endDatum, quartalsBeginn[1]) ) =>
            shown.rows[i].quarterlyZinsen = 0

\* C12: for every position and every window that overlaps the term, the
\* in-window interest is the interest over [max(windowStart, startDate),
\* min(windowEnd, endDate)]; a window containing the term gives the
\* full-term interest.
C12_WindowClippedToTerm ==
    LET shown == rendered IN
    \A i \in 1..Len(Positions) :
        ( /\ WindowSelected
          /\ NotAfter(quartalsBeginn[1], quartalsEnde[1])
          /\ NotAfter(Positions[i].startDatum, quartalsEnde[1])
          /\ NotAfter(quartalsBeginn[1], Positions[i].endDatum) ) =>
            /\ shown.rows[i].quarterlyZinsen =
                  RangeInterest(Positions[i],
                                Latest(quartalsBeginn[1], Positions[i].startDatum),
                                Earliest(quartalsEnde[1], Positions[i].endDatum))
            /\ ( /\ NotAfter(quartalsBeginn[1], Positions[i].startDatum)
                 /\ NotAfter(Positions[i].endDatum, quartalsEnde[1]) ) =>
                    shown.rows[i].quarterlyZinsen = shown.rows[i].zinsen

\* C13: the accrued-to-cutoff interest of a position is the interest over
\* [startDate, min(cutoff, endDate)] when cutoff >= startDate, and 0 when
\* cutoff < startDate or no cutoff is selected; for cutoff >= endDate it is
\* the full-term interest.
C13_AccruedToCutoff ==
    LET shown == rendered IN
    \A i \in 1..Len(Positions) :
        /\ shown.rows[i].kommulierteZinsen =
              IF quartalsEnde = Null THEN 0
              ELSE IF Before(quartalsEnde[1], Positions[i].startDatum) THEN 0
              ELSE RangeInterest(Positions[i], Positions[i].startDatum,
                                 Earliest(quartalsEnde[1], Positions[i].endDatum))
        /\ ( /\ quartalsEnde # Null
             /\ NotAfter(Positions[i].endDatum, quartalsEnde[1]) ) =>
                shown.rows[i].kommulierteZinsen = shown.rows[i].zinsen

\* C14: for every position, cutoff and booked amount the per-position
\* reserve is the accrued-to-cutoff interest minus the booked interest, a
\* missing booked amount counting as 0; it is not clamped, so it is negative
\* whenever booked > accrued.  This holds in the table and in the report.
C14_ReserveIsAccruedMinusBooked ==
    LET shown == rendered IN
    /\ \A i \in 1..Len(Positions) :
          /\ shown.rows[i].kommulierteSumme =
                shown.rows[i].kommulierteZinsen - Booked(Positions[i])
          /\ Booked(Positions[i]) > shown.rows[i].kommulierteZinsen =>
                shown.rows[i].kommulierteSumme < 0
    /\ printed # NoReport =>
          \A tb \in {"activeTable", "expiredTable"} :
              \A g \in 1..Len(printed[1][tb]) :
                  \A k \in 1..Len(printed[1][tb][g].rows) :
                      LET row == printed[1][tb][g].rows[k]
                          i == printed[1][tb][g].members[k]
                      IN  /\ row.accumulated = shown.rows[i].kommulierteZinsen
                          /\ row.reserve = row.accumulated - Booked(Positions[i])
                          /\ Booked(Positions[i]) > row.accumulated => row.reserve < 0

C14_Witness ==
    /\ printed # NoReport
    /\ Len(Positions) = 2
    /\ Positions[1].verbuchteRueckstellung = Some(100000)
    /\ rendered.rows[1].kommulierteZinsen = 1247
    /\ rendered.rows[1].kommulierteSumme = 1247 - 100000
    /\ Positions[2].verbuchteRueckstellung = Null
    /\ rendered.rows[2].kommulierteZinsen > 0
    /\ rendered.rows[2].kommulierteSumme = rendered.rows[2].kommulierteZinsen

\* C15: for every list of positions and every window, the reserve total of
\* the table summary row is the sum over the positions of (accrued-to-cutoff
\* - booked), which is also the overall reserve total of the print report.
C15_ReserveTotalIsSumOfReserves ==
    LET shown == rendered IN
    /\ shown.summary.kommulierteSumme =
          SumSeq([i \in 1..Len(Positions) |->
                     shown.rows[i].kommulierteZinsen - Booked(Positions[i])])
    /\ printed # NoReport =>
          shown.summary.kommulierteSumme = printed[1].allTotal.reserve

\* C16: the grand total of interest, full-term and in-window, is round2 of
\* the sum of the already rounded per-position interests (in cents: the sum
\* itself), so the total equals the sum of the displayed rows; it is not
\* re-derived from raw principal and days.
C16_TotalIsSumOfRoundedRows ==
    LET shown == rendered IN
    /\ shown.totalInterest =
          SumSeq([i \in 1..Len(Positions) |-> shown.rows[i].zinsen])
    /\ shown.quarterlyTotalInterest =
          SumSeq([i \in 1..Len(Positions) |-> shown.rows[i].quarterlyZinsen])

\* two positions of 12.4657... each: the rows show 12.47 and the total is
\* 24.94, where the raw sum 24.9315... would round to 24.93
C16_Witness ==
    /\ layoutFile = Part003
    /\ WindowSelected
    /\ Len(Positions) = 2
    /\ rendered.rows[1].zinsen = 1247 /\ rendered.rows[2].zinsen = 1247
    /\ rendered.totalInterest = 2494
    /\ rendered.rows[1].quarterlyZinsen = 1247 /\ rendered.rows[2].quarterlyZinsen = 1247
    /\ rendered.quarterlyTotalInterest = 2494

Tables == {"activeTable", "expiredTable"}
Figures == {"nominal", "singleInterest", "accumulated", "quarterly", "paid", "reserve"}

\* the places (table, group, row) at which the report shows position i
Places(r, i) ==
    {p \in Tables \X (1..Len(Positions)) \X (1..Len(Positions)) :
        /\ p[2] <= Len(r[p[1]])
        /\ p[3] <= Len(r[p[1]][p[2]].members)
        /\ r[p[1]][p[2]].members[p[3]] = i}

\* the sum of the group totals of one table, for one figure
SumGroupTotals(table, figure) ==
    SumSeq([g \in 1..Len(table) |-> table[g].totals[figure]])

\* C17: in the print report every position appears in exactly one bank group
\* (keyed by the exact, case-sensitive bankName) of exactly one of the two
\* tables, each group total is the sum of that figure over the positions of
\* the group, and for every figure the group totals of both tables add up to
\* the all-accounts total.
C17_ReportPartition ==
    printed # NoReport =>
        LET r == printed[1]
            shown == rendered
        IN
        /\ \A i \in 1..Len(Positions) :
              /\ Cardinality(Places(r, i)) = 1
              /\ \A p \in Places(r, i) :
                    /\ r[p[1]][p[2]].bankName = Positions[i].bankName
                    /\ r[p[1]][p[2]].rows[p[3]].nominal = Positions[i].nominal
                    /\ r[p[1]][p[2]].rows[p[3]].singleInterest = shown.rows[i].zinsen
        /\ \A tb \in Tables :
              /\ \A g1 \in 1..Len(r[tb]), g2 \in 1..Len(r[tb]) :
                    g1 # g2 => r[tb][g1].bankName # r[tb][g2].bankName
              /\ \A g \in 1..Len(r[tb]), figure \in Figures :
                    r[tb][g].totals[figure] =
                        SumSeq([k \in 1..Len(r[tb][g].rows) |-> r[tb][g].rows[k][figure]])
        /\ \A figure \in Figures :
              SumGroupTotals(r.activeTable, figure) + SumGroupTotals(r.expiredTable, figure)
                  = r.allTotal[figure]

\* a report with one position in each table
C17_Witness ==
    /\ printed # NoReport
    /\ Len(Positions) = 2
    /\ Len(printed[1].activeTable) = 1
    /\ Len(printed[1].expiredTable) = 1
    /\ printed[1].allTotal.singleInterest > printed[1].activeTotal.singleInterest
    /\ printed[1].activeTotal.singleInterest > 0

\* a report with the groups "a" and "A" in one table
C17_WitnessCaseSensitive ==
    /\ printed # NoReport
    /\ Len(printed[1].activeTable) = 2
    /\ printed[1].activeTable[1].bankName = "a"
    /\ printed[1].activeTable[2].bankName = "A"

-----------------------------------------------------------------------------
(* calculateInterest called twice: properties *)

FirstCall == history[1]

SecondCallReturned == pc = "returned" /\ history # <<>>

SameCalendarDay(a, b) == a.y = b.y /\ a.m = b.m /\ a.d = b.d
SameInstant(a, b) == SameCalendarDay(a, b) /\ hour(a) = hour(b)

Abs(x) == IF x < 0 THEN -x ELSE x

\* C18: for fixed dates, rate and convention and every integer k >= 1, the
\* interest on the nominal k*n differs from k times the interest on the
\* nominal n by at most 0.01*k (k cents).
C18_NominalScaling ==
    \A k \in 1..MaxScale :
        ( /\ SecondCallReturned
          /\ SameInstant(pStartDatum, FirstCall.pStartDatum)
          /\ SameInstant(pEndDatum, FirstCall.pEndDatum)
          /\ entry.zinssatz = FirstCall.entry.zinssatz
          /\ entry.dayCountConvention = FirstCall.entry.dayCountConvention
          /\ entry.nominal = k * FirstCall.entry.nominal ) =>
            Abs(roundedInterest - k * FirstCall.roundedInterest) <= k

\* 1000 at 5% for one day of 2024 gives 0.14, 3000 gives 0.41, not 0.42
C18_Witness ==
    /\ SecondCallReturned
    /\ SameInstant(pStartDatum, FirstCall.pStartDatum)
    /\ SameInstant(pEndDatum, FirstCall.pEndDatum)
    /\ FirstCall.entry.nominal = 1000 /\ entry.nominal = 3000
    /\ FirstCall.entry.zinssatz = 5 /\ entry.zinssatz = 5
    /\ FirstCall.roundedInterest = 14 /\ roundedInterest = 41

\* C19: for fixed principal, dates and convention, the interest at the rate
\* 2*r differs from twice the interest at the rate r by at most 0.01 (one
\* cent).
C19_RateDoubling ==
    ( /\ SecondCallReturned
      /\ SameInstant(pStartDatum, FirstCall.pStartDatum)
      /\ SameInstant(pEndDatum, FirstCall.pEndDatum)
      /\ entry.nominal = FirstCall.entry.nominal
      /\ entry.dayCountConvention = FirstCall.entry.dayCountConvention
      /\ entry.zinssatz = 2 * FirstCall.entry.zinssatz ) =>
        Abs(roundedInterest - 2 * FirstCall.roundedInterest) <= 1

\* 1000 for one day of 2024: 0.14 at 5%, 0.27 at 10%, not 0.28
C19_Witness ==
    /\ SecondCallReturned
    /\ SameInstant(pStartDatum, FirstCall.pStartDatum)
    /\ SameInstant(pEndDatum, FirstCall.pEndDatum)
    /\ FirstCall.entry.nominal = 1000 /\ entry.nominal = 1000
    /\ FirstCall.entry.zinssatz = 5 /\ entry.zinssatz = 10
    /\ FirstCall.roundedInterest = 14 /\ roundedInterest = 27

\* C20: the computed interest depends only on the calendar dates of start
\* and end, not on their time of day: two calls with the same entry whose
\* starts fall on the same calendar day and whose ends fall on the same
\* calendar day return the same amount.
C20_TimeOfDayIgnored ==
    ( /\ SecondCallReturned
      /\ entry = FirstCall.entry
      /\ SameCalendarDay(pStartDatum, FirstCall.pStartDatum)
      /\ SameCalendarDay(pEndDatum, FirstCall.pEndDatum) ) =>
        roundedInterest = FirstCall.roundedInterest

\* C21: the fallback of the year basis (365 because the summed sub-interval
\* days are zero) is executed in no call of calculateInterest.
C21_FallbackNeverExecuted ==
    pc = "returned" =>
        ~(Actual /\ year(pStartDatum) # year(pEndDatum)
                 /\ sumTotalDays(loopTrace) <= 0)

\* C22: for a period of whole calendar years [1 Jan Y1, 31 Dec Y2], Y2 > Y1,
\* nominal 1000 and rate 5 under actual/actual, the result is within 0.05
\* of 50.00 * (Y2 - Y1 + 1).
WholeYears ==
    /\ pStartDatum.m = 1 /\ pStartDatum.d = 1
    /\ pEndDatum.m = 12 /\ pEndDatum.d = 31
    /\ pEndDatum.y > pStartDatum.y

C22_WholeYearsInterest ==
    (pc = "returned" /\ Actual /\ WholeYears
        /\ entry.nominal = 1000 /\ entry.zinssatz = 5) =>
        Abs(roundedInterest - 5000 * (pEndDatum.y - pStartDatum.y + 1)) <= 5

C22_Witness ==
    /\ pc = "returned" /\ Actual /\ WholeYears
    /\ entry.nominal = 1000 /\ entry.zinssatz = 5
    /\ pStartDatum.y = 2023 /\ pEndDatum.y = 2025
    /\ roundedInterest = 15000

C22_WitnessNoLeapYear ==
    /\ pc = "returned" /\ Actual /\ WholeYears
    /\ entry.nominal = 1000 /\ entry.zinssatz = 5
    /\ pStartDatum.y = 1900 /\ pEndDatum.y = 1901
    /\ roundedInterest = 10000

\* C24: for a multi-year period with end >= start the per-year day weights
\* summed by calculateEffectiveYearBasis (totalDays) equal the inclusive
\* day count that calculateInterest uses as the numerator.
C24_TotalDaysIsInclusiveCount ==
    (pc = "returned" /\ Actual /\ pStartDatum.y < pEndDatum.y) =>
        sumTotalDays(loopTrace) = days

\* C25: for every pair of dates, inverted ones included, the year basis b
\* of calculateEffectiveYearBasis satisfies 365 <= b <= 366, and b = 365
\* when no calendar year from the start year to the end year is a leap year.
C25_BasisBetween365And366 ==
    (pc = "returned" /\ Actual) =>
        /\ 365 * yearBasis.den <= yearBasis.num
        /\ yearBasis.num <= 366 * yearBasis.den
        /\ (\A y \in pStartDatum.y..pEndDatum.y : ~Gregorian(y)) =>
               yearBasis.num = 365 * yearBasis.den

C25_Witness ==
    /\ pc = "returned" /\ Actual
    /\ pStartDatum.y = 1900 /\ pEndDatum.y = 1901
    /\ yearBasis.den > 1
    /\ yearBasis.num = 365 * yearBasis.den

C25_WitnessInverted ==
    /\ pc = "returned" /\ Actual
    /\ pStartDatum.y = 2025 /\ pEndDatum.y = 2024
    /\ yearBasis = [num |-> 365, den |-> 1]

C25_WitnessMixed ==
    /\ pc = "returned" /\ Actual
    /\ pStartDatum.y = 2023 /\ pEndDatum.y = 2024
    /\ 365 * yearBasis.den < yearBasis.num
    /\ yearBasis.num < 366 * yearBasis.den

\* C26: for nominal >= 0 and rate >= 0, every convention and every pair of
\* dates, ordered or inverted, calculateInterest returns no negative amount.
C26_NeverNegative ==
    (pc = "returned" /\ entry.nominal >= 0 /\ entry.zinssatz >= 0) =>
        roundedInterest >= 0

C26_Witness ==
    /\ pc = "returned" /\ entry.nominal > 0 /\ entry.zinssatz > 0
    /\ isBefore(pEndDatum, subtractOneDay(pStartDatum))
    /\ days < 0
    /\ roundedInterest = 0

C26_WitnessPositive ==
    /\ pc = "returned" /\ entry.nominal > 0 /\ entry.zinssatz > 0
    /\ entry.dayCountConvention = "30/360"
    /\ roundedInterest > 0

\* C28: the year loop of calculateEffectiveYearBasis runs endYear -
\* startYear + 1 iterations when startYear < endYear and none when
\* startYear > endYear, and visits the covered calendar years once each in
\* increasing order.
C28_LoopIterations ==
    (pc = "returned" /\ Actual) =>
        /\ pStartDatum.y < pEndDatum.y =>
              /\ Len(loopTrace) = pEndDatum.y - pStartDatum.y + 1
              /\ \A i \in 1..Len(loopTrace) :
                    loopTrace[i].currentYear = pStartDatum.y + i - 1
        /\ pStartDatum.y > pEndDatum.y => Len(loopTrace) = 0

C28_Witness ==
    /\ pc = "returned" /\ Actual
    /\ pStartDatum.y = 2023 /\ pEndDatum.y = 2025
    /\ Len(loopTrace) = 3
    /\ loopTrace[1].currentYear = 2023
    /\ loopTrace[2].currentYear = 2024
    /\ loopTrace[3].currentYear = 2025

C28_WitnessInverted ==
    /\ pc = "returned" /\ Actual
    /\ pStartDatum.y = 2025 /\ pEndDatum.y = 2023
    /\ loopTrace = <<>>

\* the annual call and the four quarterly calls have returned
QuartersReturned == pc = "returned" /\ Len(history) = 4

AnnualResult == history[1].roundedInterest

QuarterSum ==
    history[2].roundedInterest + history[3].roundedInterest
        + history[4].roundedInterest + roundedInterest

\* C23: for every calendar year, nominal and rate the sum of the four
\* results over the quarters [1 Jan, 31 Mar], [1 Apr, 30 Jun],
\* [1 Jul, 30 Sep], [1 Oct, 31 Dec] differs from the result over
\* [1 Jan, 31 Dec] by at most 0.02.
C23_QuartersAlignWithYear ==
    QuartersReturned =>
        /\ history[1].pStartDatum = dayjs(pStartDatum.y, 1, 1)
        /\ history[1].pEndDatum = dayjs(pStartDatum.y, 12, 31)
        /\ history[2].pStartDatum = dayjs(pStartDatum.y, 1, 1)
        /\ history[2].pEndDatum = dayjs(pStartDatum.y, 3, 31)
        /\ history[3].pStartDatum = dayjs(pStartDatum.y, 4, 1)
        /\ history[3].pEndDatum = dayjs(pStartDatum.y, 6, 30)
        /\ history[4].pStartDatum = dayjs(pStartDatum.y, 7, 1)
        /\ history[4].pEndDatum = dayjs(pStartDatum.y, 9, 30)
        /\ pStartDatum = dayjs(pStartDatum.y, 10, 1)
        /\ pEndDatum = dayjs(pStartDatum.y, 12, 31)
        /\ Abs(QuarterSum - AnnualResult) <= 2

C23_Witness ==
    /\ QuartersReturned
    /\ entry = [nominal |-> 1000, zinssatz |-> 5, dayCountConvention |-> "actual"]
    /\ pStartDatum.y = 2024
    /\ history[2].roundedInterest = 1243
    /\ roundedInterest = 1257
    /\ AnnualResult = 5000

C23_WitnessTwoCents ==
    /\ QuartersReturned
    /\ entry.dayCountConvention = "30/360"
    /\ QuarterSum - AnnualResult = 2

C23_WitnessBelow ==
    /\ QuartersReturned
    /\ Actual
    /\ QuarterSum - AnnualResult = -1

\* the second call has the entry and the start date of the first and a
\* later end date
LaterEnd ==
    /\ SecondCallReturned
    /\ entry = FirstCall.entry
    /\ pStartDatum = FirstCall.pStartDatum
    /\ isAfter(pEndDatum, FirstCall.pEndDatum)

\* C27: for a position with nominal >= 0 and rate >= 0 and a fixed start
\* date the actual/actual result does not decrease when the end date moves
\* later (end >= start), also across a year boundary where the weighted
\* year basis changes.
C27_MonotoneInEndDate ==
    (LaterEnd /\ Actual /\ entry.nominal >= 0 /\ entry.zinssatz >= 0
        /\ ~isBefore(FirstCall.pEndDatum, pStartDatum)) =>
        roundedInterest >= FirstCall.roundedInterest

C27_Witness ==
    /\ LaterEnd /\ Actual
    /\ entry.nominal = 1000 /\ entry.zinssatz = 5
    /\ pStartDatum = dayjs(2023, 1, 1)
    /\ FirstCall.pEndDatum = dayjs(2023, 12, 31)
    /\ pEndDatum = dayjs(2024, 1, 1)
    /\ FirstCall.roundedInterest = 5000
    /\ roundedInterest > 5000

C27_WitnessFromLeapYear ==
    /\ LaterEnd /\ Actual
    /\ entry.nominal = 1000 /\ entry.zinssatz = 5
    /\ pStartDatum = dayjs(2024, 12, 1)
    /\ FirstCall.pEndDatum = dayjs(2024, 12, 31)
    /\ pEndDatum = dayjs(2025, 1, 1)
    /\ roundedInterest > FirstCall.roundedInterest

C27_WitnessEqual ==
    /\ LaterEnd /\ Actual
    /\ entry.nominal = 10 /\ entry.zinssatz = 5
    /\ roundedInterest = FirstCall.roundedInterest

\* the AppLayout component runs (either source file)
IsAppLayout == layoutFile \in {Part003, AppLayoutTsx}

IsApp == layoutFile \in {AppTsx, Part001}

\* the step is an add or a delete: a user event that changes the list,
\* with the render and the effects that end the event
AddOrDelete == data' # data /\ ~effectPending'

\* the step is a submission of the add form
Submission == submissions' = submissions + 1

\* the step puts exactly one new position at the end of the list
AppendsOne ==
    /\ data # Null
    /\ data' # Null
    /\ Len(data'[1]) = Len(data[1]) + 1
    /\ SubSeq(data'[1], 1, Len(data[1])) = data[1]

\* the most recent save-data payload is the text of list l
SavedIs(payload, l) ==
    /\ payload # Null
    /\ Len(payload[1]) = Len(l)
    /\ \A i \in 1..Len(l) :
          /\ payload[1][i].bankName = l[i].bankName
          /\ payload[1][i].kontoNumber = l[i].kontoNumber
          /\ payload[1][i].nominal = l[i].nominal
          /\ payload[1][i].zinssatz = l[i].zinssatz
          /\ payload[1][i].verbuchteRueckstellung = l[i].verbuchteRueckstellung
          /\ payload[1][i].startDatum
                = <<l[i].startDatum.y, l[i].startDatum.m, l[i].startDatum.d, 0>>
          /\ payload[1][i].endDatum
                = <<l[i].endDatum.y, l[i].endDatum.m, l[i].endDatum.d, 0>>

\* C29: in AppLayout, once the load-data request has resolved, every
\* submission of the add form appends exactly one position to the end of
\* the list and the updated list is sent with save-data, whatever the
\* store returned (records, an empty result, unparseable content).
C29_SubmissionAppendsAndSaves ==
    [][(IsAppLayout /\ loadRequest = "resolved" /\ Submission) =>
           (AppendsOne /\ SavedIs(saved', data'[1]))]_vars

\* C30: in App, after the initial load, after every add and every
\* delete that changes the list the most recent save-data payload is the
\* current list, also when the list has become empty.
C30_SavedIsCurrentList ==
    [][(IsApp /\ loadRequest = "resolved" /\ AddOrDelete) =>
           SavedIs(saved', data'[1])]_vars

====
